---- MODULE Spec2Model ----
(***************************************************************************)
(* Model of package mailer (bakiversehq/mailer-client): the Client value,  *)
(* NewClient, and Client.Send, with the HTTP round trip that Send blocks   *)
(* on and the JSON encoding/decoding it performs.                          *)
(*                                                                         *)
(* A call of Send is split at its only blocking point, the Post of line    *)
(* 82: Call runs lines 76-82 up to the dispatch of the request, and one of *)
(* PostResponse, PostError, PostTimeout runs the return of Post and the    *)
(* rest of Send (lines 83-97).                                             *)
(***************************************************************************)
EXTENDS Integers, Sequences, FiniteSets, TLC

\* Number of goroutines that call Send, concurrently and repeatedly.
NumCalls == 2

Calls == 1..NumCalls

----------------------------------------------------------------------------
(* Errors. A Go error value is modelled by its dynamic type, its text and  *)
(* the text of the error it wraps.                                         *)

NilErr == [type |-> "nil", text |-> "", cause |-> ""]

\* What a call holds before it has returned, and for ever when it panicked.
NoReturn == [type |-> "none", text |-> "", cause |-> ""]

ErrorsNew(s) == [type |-> "*errors.errorString", text |-> s, cause |-> ""]

\* net/http wraps every failure of Client.Post in a *url.Error.
UrlError(op, url, cause) ==
    [type |-> "*url.Error",
     text |-> op \o " \"" \o url \o "\": " \o cause,
     cause |-> cause]

----------------------------------------------------------------------------
(* Client and NewClient.                                                   *)

\* The nil *http.Client: the Client field of a Client literal that leaves it unset.
NilHttpClient == [nil |-> TRUE, Timeout |-> 0]

\* &http.Client{Timeout: t}; a Timeout of zero means no timeout.
HttpClient(t) == [nil |-> FALSE, Timeout |-> t]

DefaultTimeout == 10

\* A plausible slip: the default client built without its timeout.
NewClientNoTimeout(baseURL) == [BaseURL |-> baseURL, Client |-> HttpClient(0)]

NewClient(baseURL) == [BaseURL |-> baseURL, Client |-> HttpClient(DefaultTimeout)]

\* Client{BaseURL: baseURL}: built by the caller, the optional field left out.
ClientLiteral(baseURL) == [BaseURL |-> baseURL, Client |-> NilHttpClient]

\* Client{BaseURL: baseURL, Client: &http.Client{}}: the caller's own client.
ClientWith(baseURL, t) == [BaseURL |-> baseURL, Client |-> HttpClient(t)]

----------------------------------------------------------------------------
(* The environment: three hosts, told apart by their base address.         *)

MailerAddr == "https://mailer.bakiverse.com"
DownAddr   == "https://down.invalid"
SilentAddr == "https://silent.example"

SendPath == "/send"

\* "up" answers, "unreachable" cannot be connected to, "silent" accepts the
\* request and never answers.
HostState(url) ==
    IF url = DownAddr \o SendPath THEN "unreachable"
    ELSE IF url = SilentAddr \o SendPath THEN "silent"
    ELSE "up"

TimeoutCause == "context deadline exceeded (Client.Timeout exceeded while awaiting headers)"

\* The network-level failures Post can report for a host, the timeout apart.
PostFailures(url) ==
    CASE HostState(url) = "up" -> {"remote error: tls: handshake failure"}
      [] HostState(url) = "unreachable" ->
             {"dial tcp: lookup down.invalid: no such host",
              "dial tcp: connect: connection refused"}
      [] OTHER -> {}

----------------------------------------------------------------------------
(* EmailReq and json.Marshal.                                              *)

Requests ==
    { [Creds |-> [Email |-> "noreply@bakiverse.com", Pwd |-> "your-password"],
       ToList |-> <<"user@example.com">>,
       Subject |-> "Welcome to Bakiverse!",
       Body |-> "<h1>Hello world</h1>",
       Html |-> TRUE,
       FromName |-> "Bakiverse Bot"],
      [Creds |-> [Email |-> "", Pwd |-> ""],
       ToList |-> <<>>,
       Subject |-> "",
       Body |-> "plain",
       Html |-> FALSE,
       FromName |-> ""] }

NoReq == [none |-> TRUE]

\* json.Marshal(req): the document keyed by the struct tags. Every field of
\* EmailReq is a string, a bool or a slice of strings, so err is always nil.
Marshal(r) ==
    [err |-> NilErr,
     data |-> [creds |-> [email |-> r.Creds.Email, pwd |-> r.Creds.Pwd],
               to_list |-> r.ToList,
               subject |-> r.Subject,
               body |-> r.Body,
               html |-> r.Html,
               from_name |-> r.FromName]]

----------------------------------------------------------------------------
(* Response bodies and json.Decoder.Decode into an EmailRes.               *)

Absent     == [t |-> "absent", b |-> FALSE, s |-> ""]
JNull      == [t |-> "null",   b |-> FALSE, s |-> ""]
JBool(b)   == [t |-> "bool",   b |-> b,     s |-> ""]
JString(s) == [t |-> "string", b |-> FALSE, s |-> s]
JNumber    == [t |-> "number", b |-> FALSE, s |-> ""]

\* A body is empty, text that is not JSON, the JSON value null, a JSON array,
\* or a JSON object with its "success" and "message" members.
RawBody(kind)   == [kind |-> kind, success |-> Absent, message |-> Absent]
Object(su, me)  == [kind |-> "object", success |-> su, message |-> me]

Bodies ==
    { RawBody("empty"), RawBody("text"), RawBody("null"), RawBody("array"),
      Object(JBool(TRUE), Absent),
      Object(JBool(TRUE), JString("queued")),
      Object(JBool(FALSE), Absent),
      Object(JBool(FALSE), JString("invalid recipient")),
      Object(Absent, JString("queued")),
      Object(JString("yes"), Absent),
      Object(JBool(TRUE), JNumber) }

StatusCodes == {200, 500}

Responses == [StatusCode : StatusCodes, Body : Bodies]

NoRes == [StatusCode |-> 0, Body |-> RawBody("none")]

\* var resp EmailRes
ZeroEmailRes == [Success |-> FALSE, Message |-> ""]

\* Decode(&into): a member that is absent or null leaves the field of `into`
\* as it was, a member of the right type sets it, a member of another type is
\* an UnmarshalTypeError; an empty body is io.EOF, other text a SyntaxError.
Decode(body, into) ==
    CASE body.kind \in {"empty", "text", "array"} -> [err |-> TRUE, resp |-> into]
      [] body.kind = "null" -> [err |-> FALSE, resp |-> into]
      [] OTHER ->
          [err  |-> \/ body.success.t \notin {"absent", "null", "bool"}
                    \/ body.message.t \notin {"absent", "null", "string"},
           resp |-> [Success |-> IF body.success.t = "bool"
                                 THEN body.success.b ELSE into.Success,
                     Message |-> IF body.message.t = "string"
                                 THEN body.message.s ELSE into.Message]]

----------------------------------------------------------------------------
(* State.                                                                  *)

VARIABLES
    clients,   \* the Client values of the program, by index
    pc,        \* per call: "idle", "posting", "done" or "panicked"
    req,       \* per call: the EmailReq argument of the running Send
    cl,        \* per call: the index of the receiver of the running Send, or 0
    inflight,  \* per call: the request Post has dispatched and not yet settled
    exchange,  \* per call: what the round trip of the last Post came to
    ret,       \* per call: the error value Send returned
    posts,     \* per call: POST requests dispatched by the Send
    opened,    \* per call: response bodies the Send obtained
    closed,    \* per call: response bodies the Send closed
    decoded    \* per call: Decode calls the Send made

vars == <<clients, pc, req, cl, inflight, exchange, ret, posts, opened, closed, decoded>>

NoFlight == [url |-> "", contentType |-> "", body |-> NoReq, timeout |-> 0]

NoExchange == [url |-> "", got |-> FALSE, res |-> NoRes, cause |-> ""]

ClientIds == 1..Len(clients)

Init ==
    /\ clients = << NewClient(MailerAddr), NewClient(MailerAddr),
                    NewClient(DownAddr), NewClient(SilentAddr),
                    ClientLiteral(MailerAddr), ClientWith(MailerAddr, 0) >>
    /\ pc = [p \in Calls |-> "idle"]
    /\ req = [p \in Calls |-> NoReq]
    /\ cl = [p \in Calls |-> 0]
    /\ inflight = [p \in Calls |-> NoFlight]
    /\ exchange = [p \in Calls |-> NoExchange]
    /\ ret = [p \in Calls |-> NoReturn]
    /\ posts = [p \in Calls |-> 0]
    /\ opened = [p \in Calls |-> 0]
    /\ closed = [p \in Calls |-> 0]
    /\ decoded = [p \in Calls |-> 0]

----------------------------------------------------------------------------
(* The pieces of Send.                                                     *)

DecodeFailedMsg == "email sent but failed to decode response"

RejectPrefix == "failed to send email: "

\* The request c.Client.Post(c.BaseURL+"/send", "application/json", data) sends,
\* with the timeout of the http.Client that sends it.
PostRequest(c, data) ==
    [url |-> c.BaseURL \o SendPath,
     contentType |-> "application/json",
     body |-> data,
     timeout |-> c.Client.Timeout]

\* A plausible slip: a resp shared by the calls instead of a local one, so
\* that a Decode starts from what another call decoded last.
SharedResp(p) ==
    IF \E q \in Calls \ {p} : pc[q] = "done" /\ exchange[q].got
    THEN LET q == CHOOSE q \in Calls \ {p} : pc[q] = "done" /\ exchange[q].got
         IN  Decode(exchange[q].res.Body, ZeroEmailRes).resp
    ELSE ZeroEmailRes

\* var resp EmailRes: each call decodes into a zero value of its own.
FreshResp(p) == ZeroEmailRes

\* A plausible slip: the backend's message dropped from the error.
RejectionErrorNoMessage(resp) == ErrorsNew("failed to send email")

\* errors.New("failed to send email: " + resp.Message)
RejectionError(resp) == ErrorsNew(RejectPrefix \o resp.Message)

\* A plausible slip: an empty body accepted as a zero response.
DecodeLenient(res, into) ==
    IF res.Body.kind = "empty" THEN [err |-> FALSE, resp |-> into]
    ELSE Decode(res.Body, into)

\* json.NewDecoder(res.Body).Decode(&resp)
DecodeBody(res, into) == Decode(res.Body, into)

\* A plausible hardening slip: a status of 400 and above reported as a failure.
SendResultByStatus(res, into) ==
    LET d == DecodeBody(res, into)
    IN  IF d.err THEN ErrorsNew(DecodeFailedMsg)
        ELSE IF ~d.resp.Success \/ res.StatusCode >= 400 THEN RejectionError(d.resp)
        ELSE NilErr

\* A plausible slip: the message read for meaning, an "invalid ..." message
\* turning a success into a failure.
SendResultByMessage(res, into) ==
    LET d == DecodeBody(res, into)
    IN  IF d.err THEN ErrorsNew(DecodeFailedMsg)
        ELSE IF ~d.resp.Success \/ d.resp.Message # "" THEN RejectionError(d.resp)
        ELSE NilErr

\* Lines 88-96: what Send returns for the response res, decoding into `into`.
SendResult(res, into) ==
    LET d == DecodeBody(res, into)
    IN  IF d.err THEN ErrorsNew(DecodeFailedMsg)
        ELSE IF ~d.resp.Success THEN RejectionError(d.resp)
        ELSE NilErr

\* A plausible slip: the body closed on the paths that decoded it only.
ClosesOnSuccessOnly(res) == IF DecodeBody(res, ZeroEmailRes).err THEN 0 ELSE 1

\* defer res.Body.Close(): runs once on every return that follows it.
DeferredCloses(res) == 1

----------------------------------------------------------------------------
(* Actions.                                                                *)

\* Lines 76-82: the caller invokes Send on clients[c] with r; Send marshals r
\* and calls Post, which panics on a nil *http.Client and otherwise dispatches
\* the request and blocks.
Call(p, c, r) ==
    /\ pc[p] \in {"idle", "done"}
    /\ req' = [req EXCEPT ![p] = r]
    /\ exchange' = [exchange EXCEPT ![p] = NoExchange]
    /\ opened' = [opened EXCEPT ![p] = 0]
    /\ closed' = [closed EXCEPT ![p] = 0]
    /\ decoded' = [decoded EXCEPT ![p] = 0]
    /\ LET m == Marshal(r)
       IN  IF m.err # NilErr
           THEN /\ pc' = [pc EXCEPT ![p] = "done"]
                /\ ret' = [ret EXCEPT ![p] = m.err]
                /\ cl' = [cl EXCEPT ![p] = 0]
                /\ posts' = [posts EXCEPT ![p] = 0]
                /\ inflight' = [inflight EXCEPT ![p] = NoFlight]
           ELSE IF clients[c].Client.nil
           THEN /\ pc' = [pc EXCEPT ![p] = "panicked"]
                /\ ret' = [ret EXCEPT ![p] = NoReturn]
                /\ cl' = [cl EXCEPT ![p] = c]
                /\ posts' = [posts EXCEPT ![p] = 0]
                /\ inflight' = [inflight EXCEPT ![p] = NoFlight]
           ELSE /\ pc' = [pc EXCEPT ![p] = "posting"]
                /\ ret' = [ret EXCEPT ![p] = NoReturn]
                /\ cl' = [cl EXCEPT ![p] = c]
                /\ posts' = [posts EXCEPT ![p] = 1]
                /\ inflight' = [inflight EXCEPT ![p] = PostRequest(clients[c], m.data)]
    /\ UNCHANGED clients

\* Lines 82-85: Post fails at the network level and Send returns its error.
PostErrorReturn(p, cause) ==
    /\ pc' = [pc EXCEPT ![p] = "done"]
    /\ ret' = [ret EXCEPT ![p] = UrlError("Post", inflight[p].url, cause)]
    /\ exchange' = [exchange EXCEPT ![p] =
           [url |-> inflight[p].url, got |-> FALSE, res |-> NoRes, cause |-> cause]]
    /\ inflight' = [inflight EXCEPT ![p] = NoFlight]
    /\ req' = [req EXCEPT ![p] = NoReq]
    /\ cl' = [cl EXCEPT ![p] = 0]
    /\ UNCHANGED <<clients, posts, opened, closed, decoded>>

\* A plausible slip: a failed Post issued again.
PostErrorRetry(p, cause) ==
    /\ pc[p] = "posting"
    /\ cause \in PostFailures(inflight[p].url)
    /\ posts' = [posts EXCEPT ![p] = @ + 1]
    /\ UNCHANGED <<clients, pc, req, cl, inflight, exchange, ret, opened, closed, decoded>>

PostError(p, cause) ==
    /\ pc[p] = "posting"
    /\ cause \in PostFailures(inflight[p].url)
    /\ PostErrorReturn(p, cause)

\* Lines 82-85: the timeout of the http.Client expires before the response
\* headers arrive; Post fails with the timeout error.
PostTimeout(p) ==
    /\ pc[p] = "posting"
    /\ inflight[p].timeout > 0
    /\ PostErrorReturn(p, TimeoutCause)

\* Lines 82-97: the backend answers with res; Post returns it and Send decodes
\* the body, closes it and returns.
PostResponse(p, res) ==
    /\ pc[p] = "posting"
    /\ HostState(inflight[p].url) = "up"
    /\ pc' = [pc EXCEPT ![p] = "done"]
    /\ ret' = [ret EXCEPT ![p] = SendResult(res, FreshResp(p))]
    /\ exchange' = [exchange EXCEPT ![p] =
           [url |-> inflight[p].url, got |-> TRUE, res |-> res, cause |-> ""]]
    /\ opened' = [opened EXCEPT ![p] = @ + 1]
    /\ decoded' = [decoded EXCEPT ![p] = @ + 1]
    /\ closed' = [closed EXCEPT ![p] = @ + DeferredCloses(res)]
    /\ inflight' = [inflight EXCEPT ![p] = NoFlight]
    /\ req' = [req EXCEPT ![p] = NoReq]
    /\ cl' = [cl EXCEPT ![p] = 0]
    /\ UNCHANGED <<clients, posts>>

Next ==
    \/ \E p \in Calls, c \in ClientIds, r \in Requests : Call(p, c, r)
    \/ \E p \in Calls, res \in Responses : PostResponse(p, res)
    \/ \E p \in Calls : \E cause \in PostFailures(inflight[p].url) : PostError(p, cause)
    \/ \E p \in Calls : PostTimeout(p)

Spec == Init /\ [][Next]_vars

\* The timer of an http.Client with a Timeout fires: a Post that is still
\* waiting when its timeout has run out does fail.
LiveSpec == Spec /\ \A p \in Calls : WF_vars(PostTimeout(p))

----------------------------------------------------------------------------
(* Vocabulary of the properties.                                           *)

HasPrefix(s, pre) == Len(s) >= Len(pre) /\ SubSeq(s, 1, Len(pre)) = pre

\* The documented outcomes an error value of Send counts as.
OutcomeKinds(e) ==
    {k \in {"success", "SerializationError", "TransportError",
            "ResponseDecodeError", "BackendRejectionError"} :
        \/ k = "success" /\ e = NilErr
        \/ k = "SerializationError"
             /\ e.type \in {"*json.UnsupportedTypeError", "*json.UnsupportedValueError",
                            "*json.MarshalerError"}
        \/ k = "TransportError" /\ e.type = "*url.Error"
        \/ k = "ResponseDecodeError"
             /\ e.type = "*errors.errorString" /\ e.text = DecodeFailedMsg
        \/ k = "BackendRejectionError"
             /\ e.type = "*errors.errorString" /\ HasPrefix(e.text, RejectPrefix)}

Returned(p) == pc[p] = "done"

Ended(p) == pc[p] \in {"done", "panicked"}

\* The call returned after Post gave it a response.
Answered(p) == Returned(p) /\ exchange[p].got

\* The call returned after Post failed.
PostFailed(p) == Returned(p) /\ ~exchange[p].got /\ posts[p] = 1

\* The body is not of the Email Response shape.
Undecodable(body) ==
    \/ body.kind \in {"empty", "text", "array"}
    \/ body.kind = "object" /\ body.success.t \in {"string", "number"}
    \/ body.kind = "object" /\ body.message.t \in {"bool", "number"}

\* The message member of the body as the backend wrote it, "" when it wrote none.
BackendMessage(body) ==
    IF body.kind = "object" /\ body.message.t = "string" THEN body.message.s ELSE ""

\* The client is one NewClient returns.
FromNewClient(c) == c = NewClient(c.BaseURL)

----------------------------------------------------------------------------
(* Properties.                                                             *)

\* C1: every call of Send that has ended has exactly one of the five
\* documented outcomes (success, SerializationError, TransportError,
\* ResponseDecodeError, BackendRejectionError): never two, never none.
C1_ExactlyOneOutcome ==
    \A p \in Calls : Ended(p) => Cardinality(OutcomeKinds(ret[p])) = 1

\* C1, read on the calls that returned: each has exactly one outcome.
C1_ReturnedExactlyOneOutcome ==
    \A p \in Calls : Returned(p) => Cardinality(OutcomeKinds(ret[p])) = 1

\* C2: the outcome does not depend on the status code: two answered calls
\* whose responses carry the same body returned the same value, and a body
\* that decodes with success = true gives nil under every status code.
C2_StatusBlind ==
    /\ \A p, q \in Calls :
          Answered(p) /\ Answered(q) /\ exchange[p].res.Body = exchange[q].res.Body
          => ret[p] = ret[q]
    /\ \A p \in Calls :
          LET d == Decode(exchange[p].res.Body, ZeroEmailRes)
          IN  Answered(p) /\ ~d.err /\ d.resp.Success => ret[p] = NilErr

C2_Witness ==
    \E p, q \in Calls :
        /\ Answered(p) /\ Answered(q)
        /\ exchange[p].res = [StatusCode |-> 200, Body |-> Object(JBool(TRUE), Absent)]
        /\ exchange[q].res = [StatusCode |-> 500, Body |-> Object(JBool(TRUE), Absent)]
        /\ ret[p] = NilErr /\ ret[q] = NilErr

\* C3: a response that decodes with success = false makes Send return the
\* error whose text is "failed to send email: " followed by the backend's
\* message, unchanged, also when the message is empty or absent; never nil.
C3_RejectionVerbatim ==
    \A p \in Calls :
        LET body == exchange[p].res.Body
            d == Decode(body, ZeroEmailRes)
        IN  Answered(p) /\ ~d.err /\ ~d.resp.Success
            => /\ ret[p] = ErrorsNew("failed to send email: " \o BackendMessage(body))
               /\ ret[p] # NilErr
               /\ OutcomeKinds(ret[p]) = {"BackendRejectionError"}

C3_Witness ==
    \E p, q \in Calls :
        /\ Answered(p) /\ exchange[p].res.Body = Object(JBool(FALSE), JString("invalid recipient"))
        /\ ret[p].text = "failed to send email: invalid recipient"
        /\ Answered(q) /\ exchange[q].res.Body = Object(JBool(FALSE), Absent)
        /\ ret[q].text = "failed to send email: "

\* C4: a response whose body is not of the Email Response shape makes Send
\* return the error "email sent but failed to decode response", which is of
\* no other kind; and that error is returned only by a call whose request was
\* sent and whose Post returned a response.
C4_DecodeError ==
    /\ \A p \in Calls :
          Answered(p) /\ Undecodable(exchange[p].res.Body)
          => /\ ret[p] = ErrorsNew("email sent but failed to decode response")
             /\ OutcomeKinds(ret[p]) = {"ResponseDecodeError"}
    /\ \A p \in Calls :
          Returned(p) /\ "ResponseDecodeError" \in OutcomeKinds(ret[p])
          => posts[p] = 1 /\ exchange[p].got /\ decoded[p] = 1

C4_Witness ==
    \E p, q \in Calls :
        /\ Answered(p) /\ exchange[p].res.Body = RawBody("empty")
        /\ ret[p].text = DecodeFailedMsg
        /\ Answered(q) /\ exchange[q].res.Body = RawBody("text")
        /\ ret[q].text = DecodeFailedMsg

\* C5: when Post fails at the network level Send returns the *url.Error that
\* wraps the failure and decodes nothing; and a Send on a client of NewClient
\* whose backend is unreachable or never answers eventually returns such an
\* error.
C5_TransportError ==
    /\ [](\A p \in Calls :
            PostFailed(p)
            => /\ ret[p] = UrlError("Post", exchange[p].url, exchange[p].cause)
               /\ exchange[p].cause # ""
               /\ OutcomeKinds(ret[p]) = {"TransportError"}
               /\ decoded[p] = 0 /\ opened[p] = 0)
    /\ \A p \in Calls :
          (/\ pc[p] = "posting"
           /\ FromNewClient(clients[cl[p]])
           /\ HostState(inflight[p].url) # "up")
          ~> (PostFailed(p) /\ OutcomeKinds(ret[p]) = {"TransportError"})

C5_Witness ==
    \E p, q \in Calls :
        /\ PostFailed(p) /\ exchange[p].url = SilentAddr \o SendPath
        /\ ret[p].cause = TimeoutCause
        /\ PostFailed(q) /\ exchange[q].url = DownAddr \o SendPath
        /\ ret[q].cause = "dial tcp: connect: connection refused"

\* C6: a call of Send issues at most one POST: exactly one when it gets as
\* far as Post, none after a serialization failure, and none is in flight or
\* issued again once the call has returned, whatever it returned.
C6_SinglePost ==
    \A p \in Calls :
        /\ posts[p] <= 1
        /\ pc[p] = "posting" => posts[p] = 1 /\ inflight[p] # NoFlight
        /\ Returned(p) => inflight[p] = NoFlight
        /\ Returned(p) /\ "SerializationError" \in OutcomeKinds(ret[p]) => posts[p] = 0
        /\ Returned(p) /\ "SerializationError" \notin OutcomeKinds(ret[p]) => posts[p] = 1

C6_Witness ==
    \E p, q \in Calls :
        /\ PostFailed(p) /\ posts[p] = 1
        /\ Answered(q) /\ ret[q] # NilErr /\ posts[q] = 1

\* C7: a Send on a Client whose Client field was left unset has a usable
\* transport, the default one with the 10-second timeout: it does not panic,
\* and while it waits in Post the request is under that timeout.
C7_DefaultTransport ==
    \A p \in Calls :
        /\ pc[p] # "panicked"
        /\ cl[p] # 0 /\ clients[cl[p]].Client.nil
           => pc[p] = "posting" /\ inflight[p].timeout = DefaultTimeout

\* C8: concurrent calls do not mix: the request in flight for a call is the
\* one built from its own receiver and argument, and what an answered call
\* returned is what its own response alone decodes to.
C8_OwnExchange ==
    /\ \A p \in Calls :
          pc[p] = "posting"
          => inflight[p] = [url |-> clients[cl[p]].BaseURL \o "/send",
                            contentType |-> "application/json",
                            body |-> Marshal(req[p]).data,
                            timeout |-> clients[cl[p]].Client.Timeout]
    /\ \A p \in Calls :
          Answered(p) => ret[p] = SendResult(exchange[p].res, ZeroEmailRes)

C8_Witness ==
    \E p, q \in Calls :
        /\ p # q
        /\ Answered(p) /\ exchange[p].res.Body = Object(JBool(TRUE), JString("queued"))
        /\ ret[p] = NilErr
        /\ Answered(q) /\ exchange[q].res.Body = Object(JBool(FALSE), Absent)
        /\ ret[q].text = RejectPrefix

\* C9: among decoded responses the success flag alone decides the outcome:
\* two with the same flag give the same kind, success when the flag is true
\* and BackendRejectionError when it is false, whatever the messages.
C9_FlagDecides ==
    \A p, q \in Calls :
        LET dp == Decode(exchange[p].res.Body, ZeroEmailRes)
            dq == Decode(exchange[q].res.Body, ZeroEmailRes)
        IN  /\ Answered(p) /\ Answered(q)
            /\ ~dp.err /\ ~dq.err
            /\ dp.resp.Success = dq.resp.Success
            => /\ OutcomeKinds(ret[p]) = OutcomeKinds(ret[q])
               /\ OutcomeKinds(ret[p]) =
                    IF dp.resp.Success THEN {"success"} ELSE {"BackendRejectionError"}

C9_Witness ==
    \E p, q \in Calls :
        /\ Answered(p) /\ exchange[p].res.Body = Object(JBool(TRUE), Absent)
        /\ Answered(q) /\ exchange[q].res.Body = Object(JBool(TRUE), JString("queued"))
        /\ ret[p] = NilErr /\ ret[q] = NilErr

\* C10: a call that got a response closed its body exactly once before it
\* returned, a call that got none closed nothing, and no body stays open.
C10_BodyClosed ==
    \A p \in Calls :
        /\ opened[p] = closed[p]
        /\ Answered(p) => opened[p] = 1 /\ closed[p] = 1
        /\ Ended(p) /\ ~exchange[p].got => opened[p] = 0 /\ closed[p] = 0

C10_Witness ==
    \E p, q \in Calls :
        /\ Answered(p) /\ ret[p].text = DecodeFailedMsg /\ closed[p] = 1
        /\ PostFailed(q) /\ closed[q] = 0

====
